---- MODULE Spec2Model ----
(***************************************************************************)
(* Alert lifecycle and audit ledger of the cloud resource monitoring and   *)
(* alerting backend (src/backend).                                         *)
(*                                                                         *)
(* The store is the PostgreSQL database behind models.py: the alerts table *)
(* and the audit_logs table, plus the resources and incidents rows the     *)
(* handlers look up.  Every HTTP request runs in its own SQLAlchemy        *)
(* session (get_db), so a handler is a sequence of steps, one per database *)
(* round trip or channel call, and req[s] holds the position and the local *)
(* objects of the request served in session s.                             *)
(*                                                                         *)
(*   Spec      requests are served one at a time (a handler runs to its    *)
(*             response before the next request starts);                   *)
(*   SpecConc  the two sessions interleave freely at step granularity,     *)
(*             every commit being visible to the other session at once     *)
(*             (READ COMMITTED, the engine's default; the code takes no    *)
(*             row lock and has no version column).                        *)
(***************************************************************************)
EXTENDS Integers, Sequences, FiniteSets, TLC

VARIABLES
    products,   \* table products: product id -> row
    resources,  \* ids of the rows of table resources
    incidents,  \* ids of the rows of table incidents
    alerts,     \* table alerts: alert id -> row
    audit,      \* table audit_logs, in insertion order
    uuid,       \* number of alert ids generated so far (uuid.uuid4 is fresh)
    now,        \* the value the next datetime.utcnow() returns
    req         \* per session: the request being served and its local state

vars == <<products, resources, incidents, alerts, audit, uuid, now, req>>

-----------------------------------------------------------------------------
(* Bounds of the model *)

\* rows table alerts may hold before detect_security_event stops being called
MaxAlerts == 2
\* rows table audit_logs may hold before new requests stop being accepted
MaxAudit == 3
\* ids uuid4 may hand out before create_product stops being called
MaxProductIds == 3
\* largest skip and largest limit a list request asks for
MaxSkip == 1
MaxLimit == 2

-----------------------------------------------------------------------------
(* Values *)

\* Python None in an id column / in a DateTime column
NoId == 0
NoTime == 0

\* the two database sessions that may be open at the same time
Sessions == {1, 2}

\* an id that matches no row
UnknownId == 9

AlertStatus == {"active", "resolved", "acknowledged"}
AlertType == {"resource", "security", "misconfiguration"}

SECURITY_EVENT_TYPES ==
    {"unauthorized_access", "configuration_change", "policy_violation",
     "privilege_escalation", "resource_exposure"}

\* event tags a caller may send: the recognized ones and one that is not
EventTags == SECURITY_EVENT_TYPES \cup {"rm_-rf_root"}

\* actors a caller may name; "None" is an absent actor
Actors == {"None", "alice"}

\* evidence payloads a caller may send; "None" is an absent payload
Payloads == {"None", "evidence"}

\* product names a caller may send ("" is a valid str) and descriptions;
\* "None" is an absent field of the request body
ProductNames == {"", "a", "b"}
ProductDescriptions == {"None", "text"}

\* metric names, metric values and thresholds an evaluation may see; NoValue
\* is a metric that could not be fetched (None), NoThreshold a metric without
\* a threshold (thresholds.get(metric) is None)
Metrics == {"CPUUtilization", "NetworkIn"}
NoValue == -1
NoThreshold == -1
MetricValues == {NoValue, 0, 1, 2}
Thresholds == {NoThreshold, 0, 1}
NoThresholds == [m \in Metrics |-> NoThreshold]

\* the mappings metric -> value over a subset of Metrics, as the sequence of
\* their items in iteration order
MetricMappings ==
    {<<>>}
    \cup {<<[metric |-> m, value |-> v]>> : m \in Metrics, v \in MetricValues}
    \cup {<<[metric |-> m1, value |-> v1], [metric |-> m2, value |-> v2]>> :
            <<m1, m2>> \in {mm \in Metrics \X Metrics : mm[1] # mm[2]},
            <<v1, v2>> \in MetricValues \X MetricValues}

\* what CloudWatch answers for a metric: the Average of its last datapoint,
\* NoValue for an answer without datapoints, FetchError for a BotoCoreError or
\* ClientError raised by get_metric_statistics
FetchError == -2
CloudWatchAnswers == [Metrics -> MetricValues \cup {FetchError}]

\* lists of metric names a caller of fetch_aws_metrics may pass
MetricLists ==
    {<<>>} \cup {<<m>> : m \in Metrics} \cup {<<m1, m2>> : m1 \in Metrics, m2 \in Metrics}

\* the columns of a resources row that metric collection reads: the
\* monitoring_enabled flag, and whether cloud_provider / resource_type are
\* aws / ec2.  No endpoint writes them; they are as provisioning left them.
ResourceRows == [monitoring_enabled : BOOLEAN, aws_ec2 : BOOLEAN]

\* the list endpoints, and the limit query parameter a caller may send
ListEndpoints ==
    {"crud.list_products", "crud.list_resources", "crud.list_alerts",
     "crud.list_incidents", "alerting.list_alerts", "audit_log.list_audit_logs",
     "monitoring.get_all_resources_metrics"}
DefaultLimit == 100
LimitCap == 1000
LimitInputs == {-1, 0, 1, DefaultLimit, LimitCap, LimitCap + 1, 5 * LimitCap}

\* what the SMTP exchange and the webhook call can do
EmailOutcomes == {"sent", "smtp_error"}
SlackOutcomes == {"unconfigured", "http_200", "http_error", "exception"}

-----------------------------------------------------------------------------
(* JSON details columns.  One record shape for all of them: keys is the    *)
(* set of keys the dict holds, the other fields the values of those keys.  *)

EmptyDict ==
    [keys |-> {}, email_sent |-> FALSE, slack_sent |-> FALSE,
     resolved_at |-> NoTime, payload |-> "None"]

DeliveryDetails(email_sent, slack_sent) ==
    [EmptyDict EXCEPT !.keys = {"email_sent", "slack_sent"},
                      !.email_sent = email_sent, !.slack_sent = slack_sent]

ResolvedDetails(resolved_at) ==
    [EmptyDict EXCEPT !.keys = {"resolved_at"}, !.resolved_at = resolved_at]

\* `details or {}`
DetailsOrEmpty(details) ==
    IF details = "None" THEN EmptyDict
    ELSE [EmptyDict EXCEPT !.keys = {"payload"}, !.payload = details]

-----------------------------------------------------------------------------
(* Rows *)

NoAlert ==
    [id |-> NoId, resource_id |-> NoId, type |-> "resource", status |-> "active",
     triggered_at |-> NoTime, resolved_at |-> NoTime,
     severity |-> "", details |-> EmptyDict, incident_id |-> NoId]

\* rows present when the service starts: the API has no endpoint that inserts
\* a resource, an incident or a non-security alert, so they come from the
\* provisioning side that shares the database
SeedResources == {1}
SeedIncidents == {1}
\* the alert that is there: an active one linked to the incident, or an
\* acknowledged one linked to none
SeedAlerts ==
    { (1 :> [NoAlert EXCEPT !.id = 1, !.resource_id = 1, !.type = "resource",
                            !.status = "active", !.triggered_at = 1,
                            !.severity = "warning", !.incident_id = 1]),
      (1 :> [NoAlert EXCEPT !.id = 1, !.resource_id = 1, !.type = "misconfiguration",
                            !.status = "acknowledged", !.triggered_at = 1,
                            !.severity = "info"]) }

\* both of them, the second under id 2
SeedAlertsConc ==
    (1 :> [NoAlert EXCEPT !.id = 1, !.resource_id = 1, !.type = "resource",
                          !.status = "active", !.triggered_at = 1,
                          !.severity = "warning", !.incident_id = 1])
    @@
    (2 :> [NoAlert EXCEPT !.id = 2, !.resource_id = 1, !.type = "misconfiguration",
                          !.status = "acknowledged", !.triggered_at = 1,
                          !.severity = "info"])

\* a products row; NoProduct is "no such row"
NoProduct == [id |-> NoId, name |-> "", description |-> "None"]

\* the product the seeded resource was provisioned for
SeedProducts == (1 :> [id |-> 1, name |-> "a", description |-> "None"])

\* resources.product_id and incidents.resource_id of the seeded rows
product_id_of(resource_id) == 1
resource_id_of(incident_id) == 1

\* A request: pc is the handler's position, op the endpoint, then the request's
\* parameters, the handler's local objects (alert and incident are the ORM
\* objects of the session, calls the channel calls deliver_alert has made, each
\* with what the transport did, email_sent / slack_sent / success deliver_alert's
\* locals, product that of the product handlers), and the response: status_code,
\* body (rows for a list request), and error, the exception a 500 response
\* stands for.  audit0 and alerts0
\* record the size of audit_logs and the ids of alerts when the request arrived.
IdleReq ==
    [pc |-> "idle", op |-> "none", alert_id |-> NoId, resource_id |-> NoId,
     event_type |-> "", actor |-> "None", details |-> "None",
     alert |-> NoAlert, incident |-> NoId,
     calls |-> <<>>,
     email_sent |-> FALSE, slack_sent |-> FALSE, success |-> FALSE,
     status_code |-> 0, body |-> NoAlert,
     metrics |-> <<>>, thresholds |-> NoThresholds, breaches |-> <<>>,
     endpoint |-> "", limit_given |-> FALSE,
     requested |-> <<>>, answers |-> [m \in Metrics |-> NoValue],
     client |-> FALSE, fetch_called |-> FALSE,
     resource_row |-> [monitoring_enabled |-> FALSE, aws_ec2 |-> FALSE],
     incident_id |-> NoId, skip |-> 0, limit |-> 0, rows |-> <<>>,
     product_id |-> NoId, name |-> "None", description |-> "None",
     product |-> NoProduct, error |-> "",
     audit0 |-> 0, alerts0 |-> {}]

Init ==
    /\ products = SeedProducts
    /\ resources = SeedResources
    /\ incidents = SeedIncidents
    /\ alerts \in SeedAlerts
    /\ audit = <<>>
    /\ uuid = 1
    /\ now = 2
    /\ req = [s \in Sessions |-> IdleReq]

-----------------------------------------------------------------------------
(* datetime.utcnow(): every reading is later than the one before *)

utcnow_next(t) == t + 1

-----------------------------------------------------------------------------
(* Lookups (crud.py).  A missing row is NoAlert / NoId here and becomes the *)
(* 404 response in the handler that called the lookup.                     *)

get_alert(db_alerts, alert_id) ==
    IF alert_id \in DOMAIN db_alerts THEN db_alerts[alert_id] ELSE NoAlert

\* variant: the id is taken as given
get_resource_any(db_resources, resource_id) == resource_id

get_resource(db_resources, resource_id) ==
    IF resource_id \in db_resources THEN resource_id ELSE NoId

get_incident(db_incidents, incident_id) ==
    IF incident_id \in db_incidents THEN incident_id ELSE NoId

-----------------------------------------------------------------------------
(* Notification channels (alerting.py) *)

\* True only when the whole SMTP exchange went through; any exception is False
send_email_alert(outcome) == outcome = "sent"

\* variant: any HTTP response counts as delivered
send_slack_alert_any_response(outcome) == outcome \in {"http_200", "http_error"}

\* False without a webhook URL, on a status other than 200 and on any exception
send_slack_alert(outcome) ==
    IF outcome = "unconfigured" THEN FALSE
    ELSE IF outcome = "http_200" THEN TRUE
    ELSE FALSE

\* variant: success only when both channels succeeded
deliver_result_both(email_sent, slack_sent) == email_sent /\ slack_sent

\* deliver_alert's return value
deliver_result(email_sent, slack_sent) == email_sent \/ slack_sent

-----------------------------------------------------------------------------
(* Audit ledger (alerting.py) *)

\* variant: slack_sent filled from the email result
AuditLog_one_flag(alert, event_type, actor, details, incident, event_time) ==
    [incident_id |-> IF incident # NoId THEN incident ELSE alert.incident_id,
     alert_id |-> alert.id,
     event_type |-> event_type,
     event_time |-> event_time,
     actor |-> actor,
     details |-> [details EXCEPT !.slack_sent = details.email_sent]]

\* variant: a resolution is recorded without its alert
AuditLog_detached(alert, event_type, actor, details, incident, event_time) ==
    [incident_id |-> IF incident # NoId THEN incident ELSE alert.incident_id,
     alert_id |-> IF event_type = "alert_resolved" THEN NoId ELSE alert.id,
     event_type |-> event_type,
     event_time |-> event_time,
     actor |-> actor,
     details |-> details]

\* variant: only an explicitly passed incident is recorded
AuditLog_passed_incident_only(alert, event_type, actor, details, incident, event_time) ==
    [incident_id |-> incident,
     alert_id |-> alert.id,
     event_type |-> event_type,
     event_time |-> event_time,
     actor |-> actor,
     details |-> details]

\* the AuditLog row log_alert_event builds
AuditLog(alert, event_type, actor, details, incident, event_time) ==
    [incident_id |-> IF incident # NoId THEN incident ELSE alert.incident_id,
     alert_id |-> alert.id,
     event_type |-> event_type,
     event_time |-> event_time,
     actor |-> actor,
     details |-> details]

\* variant: a delivery that reached nobody is not recorded
log_alert_event_delivered_only(db_audit, alert, event_type, actor, details, incident, event_time) ==
    IF event_type = "alert_generated" /\ ~details.email_sent /\ ~details.slack_sent
    THEN db_audit
    ELSE Append(db_audit, [incident_id |-> IF incident # NoId THEN incident ELSE alert.incident_id,
                           alert_id |-> alert.id, event_type |-> event_type,
                           event_time |-> event_time, actor |-> actor, details |-> details])

\* variant: one row per alert and event type, rewritten on each event
log_alert_event_upsert(db_audit, alert, event_type, actor, details, incident, event_time) ==
    LET row == [incident_id |-> IF incident # NoId THEN incident ELSE alert.incident_id,
                alert_id |-> alert.id, event_type |-> event_type,
                event_time |-> event_time, actor |-> actor, details |-> details]
        same(i) == db_audit[i].alert_id = alert.id /\ db_audit[i].event_type = event_type
    IN  IF \E i \in 1..Len(db_audit) : same(i)
        THEN [i \in 1..Len(db_audit) |-> IF same(i) THEN row ELSE db_audit[i]]
        ELSE Append(db_audit, row)

\* db.add(audit_log); db.commit()
log_alert_event(db_audit, alert, event_type, actor, details, incident, event_time) ==
    Append(db_audit, AuditLog(alert, event_type, actor, details, incident, event_time))

-----------------------------------------------------------------------------
(* Alert rows *)

\* variant: no early return
already_resolved_never(alert) == FALSE

\* resolve_alert's early return test
already_resolved(alert) == alert.status = "resolved"

\* variant: resolved_at is not assigned
resolved_row_status_only(alert, t) == [alert EXCEPT !.status = "resolved"]

\* the columns resolve_alert assigns
resolved_row(alert, t) == [alert EXCEPT !.status = "resolved", !.resolved_at = t]

\* variant: resource_exposure left out of the critical tags
severity_of_two_critical(event_type) ==
    IF event_type \in {"unauthorized_access", "privilege_escalation"}
    THEN "critical" ELSE "warning"

\* severity detect_security_event derives from the event tag
severity_of(event_type) ==
    IF event_type \in {"unauthorized_access", "privilege_escalation", "resource_exposure"}
    THEN "critical" ELSE "warning"

\* the Alert row detect_security_event builds
security_alert(id, resource, event_type, details, t) ==
    [NoAlert EXCEPT !.id = id,
                    !.resource_id = resource,
                    !.type = "security",
                    !.status = "active",
                    !.triggered_at = t,
                    !.severity = severity_of(event_type),
                    !.details = DetailsOrEmpty(details)]

\* variant: the actor is recorded as given
actor_or_system_as_given(actor) == actor

\* `actor or "system"`
actor_or_system(actor) == IF actor = "None" THEN "system" ELSE actor

-----------------------------------------------------------------------------
(* Request plumbing *)

Free(s) == req[s].pc = "idle"

Respond(s, code, body) ==
    req' = [req EXCEPT ![s].pc = "done", ![s].status_code = code, ![s].body = body]

StoreUnchanged == UNCHANGED <<products, resources, incidents, alerts, audit, uuid>>

-----------------------------------------------------------------------------
(* POST /alerts/{alert_id}/deliver  (deliver_alert_endpoint)               *)

\* the request arrives; get_alert and, for a linked alert, get_incident
deliver_alert_endpoint(s, alert_id) ==
    /\ Free(s)
    /\ alert_id \in DOMAIN alerts => Len(audit) < MaxAudit
    /\ LET alert == get_alert(alerts, alert_id)
           incident == IF alert.incident_id # NoId
                       THEN get_incident(incidents, alert.incident_id) ELSE NoId
           r == [IdleReq EXCEPT !.op = "deliver", !.alert_id = alert_id,
                                !.alert = alert, !.incident = incident,
                                !.audit0 = Len(audit), !.alerts0 = DOMAIN alerts]
       IN  req' = [req EXCEPT ![s] =
                IF alert = NoAlert \/ (alert.incident_id # NoId /\ incident = NoId)
                THEN [r EXCEPT !.pc = "done", !.status_code = 404]
                ELSE [r EXCEPT !.pc = "email"]]
    /\ StoreUnchanged
    /\ UNCHANGED now

\* deliver_alert: email_sent = send_email_alert(subject, body)
deliver_alert_email(s, outcome) ==
    /\ req[s].pc = "email"
    /\ req' = [req EXCEPT ![s].pc = "slack",
                          ![s].calls = Append(@, [channel |-> "email", outcome |-> outcome]),
                          ![s].email_sent = send_email_alert(outcome)]
    /\ StoreUnchanged
    /\ UNCHANGED now

\* deliver_alert: slack_sent = send_slack_alert(slack_message)
deliver_alert_slack(s, outcome) ==
    /\ req[s].pc = "slack"
    /\ req' = [req EXCEPT ![s].pc = "deliver_log",
                          ![s].calls = Append(@, [channel |-> "slack", outcome |-> outcome]),
                          ![s].slack_sent = send_slack_alert(outcome)]
    /\ StoreUnchanged
    /\ UNCHANGED now

\* variant: an alert no channel delivered is escalated to critical
deliver_alert_log_escalating(s) ==
    /\ req[s].pc = "deliver_log"
    /\ audit' = log_alert_event(audit, req[s].alert, "alert_generated", "system",
                    DeliveryDetails(req[s].email_sent, req[s].slack_sent),
                    req[s].incident, now)
    /\ req' = [req EXCEPT
                ![s].pc = IF req[s].op = "deliver" THEN "deliver_respond" ELSE "event_log",
                ![s].success = deliver_result(req[s].email_sent, req[s].slack_sent)]
    /\ alerts' = [alerts EXCEPT ![req[s].alert_id].severity =
                    IF deliver_result(req[s].email_sent, req[s].slack_sent)
                    THEN @ ELSE "critical"]
    /\ now' = utcnow_next(now)
    /\ UNCHANGED <<products, resources, incidents, uuid>>

\* deliver_alert: log_alert_event(alert_generated) and the return value
deliver_alert_log(s) ==
    /\ req[s].pc = "deliver_log"
    /\ audit' = log_alert_event(audit, req[s].alert, "alert_generated", "system",
                    DeliveryDetails(req[s].email_sent, req[s].slack_sent),
                    req[s].incident, now)
    /\ req' = [req EXCEPT
                ![s].pc = IF req[s].op = "deliver" THEN "deliver_respond" ELSE "event_log",
                ![s].success = deliver_result(req[s].email_sent, req[s].slack_sent)]
    /\ now' = utcnow_next(now)
    /\ UNCHANGED <<products, resources, incidents, alerts, uuid>>

\* deliver_alert_endpoint: 500 when deliver_alert returned False, else 200
deliver_alert_respond(s) ==
    /\ req[s].pc = "deliver_respond"
    /\ Respond(s, IF ~req[s].success THEN 500 ELSE 200, NoAlert)
    /\ StoreUnchanged
    /\ UNCHANGED now

-----------------------------------------------------------------------------
(* POST /alerts/{alert_id}/resolve  (resolve_alert_endpoint)                *)

\* actors of a resolve request; the query parameter defaults to "system"
ResolveActors == {"system", "alice"}

\* the request arrives; get_alert
resolve_alert_endpoint(s, alert_id, actor) ==
    /\ Free(s)
    /\ (alert_id \in DOMAIN alerts /\ ~already_resolved(get_alert(alerts, alert_id)))
          => Len(audit) < MaxAudit
    /\ LET alert == get_alert(alerts, alert_id)
           r == [IdleReq EXCEPT !.op = "resolve", !.alert_id = alert_id,
                                !.actor = actor, !.alert = alert,
                                !.audit0 = Len(audit), !.alerts0 = DOMAIN alerts]
       IN  req' = [req EXCEPT ![s] =
                IF alert = NoAlert
                THEN [r EXCEPT !.pc = "done", !.status_code = 404]
                ELSE [r EXCEPT !.pc = "resolve"]]
    /\ StoreUnchanged
    /\ UNCHANGED now

\* variant: the UPDATE is not restricted to the alert's row
resolve_alert_unscoped(s) ==
    /\ req[s].pc = "resolve"
    /\ IF already_resolved(req[s].alert)
       THEN /\ Respond(s, 200, req[s].alert)
            /\ UNCHANGED alerts
       ELSE LET row == resolved_row(req[s].alert, now)
            IN  /\ alerts' = [a \in DOMAIN alerts |->
                                [alerts[a] EXCEPT !.status = row.status,
                                                  !.resolved_at = row.resolved_at]]
                /\ req' = [req EXCEPT ![s].pc = "refresh", ![s].alert = row]
    /\ now' = IF already_resolved(req[s].alert) THEN now ELSE utcnow_next(now)
    /\ UNCHANGED <<products, resources, incidents, audit, uuid>>

\* resolve_alert: the early return, or status and resolved_at assigned and
\* committed (an UPDATE of these two columns of the row)
resolve_alert(s) ==
    /\ req[s].pc = "resolve"
    /\ IF already_resolved(req[s].alert)
       THEN /\ Respond(s, 200, req[s].alert)
            /\ UNCHANGED alerts
       ELSE LET row == resolved_row(req[s].alert, now)
            IN  /\ alerts' = [alerts EXCEPT ![req[s].alert_id].status = row.status,
                                            ![req[s].alert_id].resolved_at = row.resolved_at]
                /\ req' = [req EXCEPT ![s].pc = "refresh", ![s].alert = row]
    /\ now' = IF already_resolved(req[s].alert) THEN now ELSE utcnow_next(now)
    /\ UNCHANGED <<products, resources, incidents, audit, uuid>>

\* resolve_alert: db.refresh(alert) reloads the row
resolve_alert_refresh(s) ==
    /\ req[s].pc = "refresh"
    /\ req' = [req EXCEPT ![s].pc = "resolve_log",
                          ![s].alert = get_alert(alerts, req[s].alert_id)]
    /\ StoreUnchanged
    /\ UNCHANGED now

\* resolve_alert: log_alert_event(alert_resolved)
resolve_alert_log(s) ==
    /\ req[s].pc = "resolve_log"
    /\ audit' = log_alert_event(audit, req[s].alert, "alert_resolved", req[s].actor,
                    ResolvedDetails(req[s].alert.resolved_at), NoId, now)
    /\ req' = [req EXCEPT ![s].pc = "resolve_respond"]
    /\ now' = utcnow_next(now)
    /\ UNCHANGED <<products, resources, incidents, alerts, uuid>>

\* resolve_alert_endpoint returns the alert; the commit in log_alert_event
\* expired the object, so the response is built from the row as it is now
resolve_alert_respond(s) ==
    /\ req[s].pc = "resolve_respond"
    /\ Respond(s, 200, get_alert(alerts, req[s].alert_id))
    /\ StoreUnchanged
    /\ UNCHANGED now

-----------------------------------------------------------------------------
(* POST /security-events/detect  (detect_security_event_endpoint)           *)

\* variant: every tag is accepted
is_supported_any(event_type) == TRUE

\* event_type in SECURITY_EVENT_TYPES
is_supported(event_type) == event_type \in SECURITY_EVENT_TYPES

\* the request arrives; the tag is validated, then get_resource
detect_security_event(s, resource_id, event_type, actor, details) ==
    /\ Free(s)
    /\ (is_supported(event_type) /\ resource_id \in resources)
          => (Cardinality(DOMAIN alerts) < MaxAlerts /\ Len(audit) + 2 <= MaxAudit)
    /\ LET r == [IdleReq EXCEPT !.op = "detect", !.resource_id = resource_id,
                                !.event_type = event_type, !.actor = actor,
                                !.details = details,
                                !.audit0 = Len(audit), !.alerts0 = DOMAIN alerts]
       IN  req' = [req EXCEPT ![s] =
                IF ~is_supported(event_type)
                THEN [r EXCEPT !.pc = "done", !.status_code = 400]
                ELSE IF get_resource(resources, resource_id) = NoId
                THEN [r EXCEPT !.pc = "done", !.status_code = 404]
                ELSE [r EXCEPT !.pc = "insert"]]
    /\ StoreUnchanged
    /\ UNCHANGED now

\* detect_security_event: the Alert is built, added, committed and refreshed
detect_security_event_insert(s) ==
    /\ req[s].pc = "insert"
    /\ LET id == uuid + 1
           row == security_alert(id, req[s].resource_id, req[s].event_type,
                                 req[s].details, now)
       IN  /\ uuid' = id
           /\ alerts' = alerts @@ (id :> row)
           /\ req' = [req EXCEPT ![s].pc = "email", ![s].alert_id = id,
                                 ![s].alert = row]
    /\ now' = utcnow_next(now)
    /\ UNCHANGED <<products, resources, incidents, audit>>

\* detect_security_event: log_alert_event(security_event_detected); the commit
\* in deliver_alert expired the alert, so its columns are read from the row
detect_security_event_log(s) ==
    /\ req[s].pc = "event_log"
    /\ audit' = log_alert_event(audit, get_alert(alerts, req[s].alert_id),
                    "security_event_detected", actor_or_system(req[s].actor),
                    DetailsOrEmpty(req[s].details), NoId, now)
    /\ req' = [req EXCEPT ![s].pc = "detect_respond"]
    /\ now' = utcnow_next(now)
    /\ UNCHANGED <<products, resources, incidents, alerts, uuid>>

\* variant: a security alert that reached nobody is answered as a failure,
\* as deliver_alert_endpoint does
detect_security_event_respond_checked(s) ==
    /\ req[s].pc = "detect_respond"
    /\ IF req[s].success
       THEN Respond(s, 201, get_alert(alerts, req[s].alert_id))
       ELSE Respond(s, 500, NoAlert)
    /\ StoreUnchanged
    /\ UNCHANGED now

\* detect_security_event_endpoint returns the alert with 201
detect_security_event_respond(s) ==
    /\ req[s].pc = "detect_respond"
    /\ Respond(s, 201, get_alert(alerts, req[s].alert_id))
    /\ StoreUnchanged
    /\ UNCHANGED now

-----------------------------------------------------------------------------
(* get_db: the session is closed once the response is out *)

get_db_close(s) ==
    /\ req[s].pc = "done"
    /\ req' = [req EXCEPT ![s] = IdleReq]
    /\ StoreUnchanged
    /\ UNCHANGED now

-----------------------------------------------------------------------------
(* Products (crud.py)                                                      *)

\* db.query(Product).filter(Product.name == name).first() finds a row
name_taken(db_products, name) ==
    \E p \in DOMAIN db_products : db_products[p].name = name

\* variant: no other product is ever found
name_taken_by_other_never(db_products, name, product_id) == FALSE

\* ... filter(Product.name == name, Product.id != product_id).first() finds a row
name_taken_by_other(db_products, name, product_id) ==
    \E p \in DOMAIN db_products : p # product_id /\ db_products[p].name = name

\* get_product
get_product(db_products, product_id) ==
    IF product_id \in DOMAIN db_products THEN db_products[product_id] ELSE NoProduct

\* `if name:` -- None and "" leave the name as it is
name_given(name) == name # "None" /\ name # ""

\* the row update_product commits
updated_product(product, name, description) ==
    [product EXCEPT !.name = IF name_given(name) THEN name ELSE @,
                    !.description = IF description # "None" THEN description ELSE @]

\* POST /products/: the request arrives; the existence query
create_product(s, name, description) ==
    /\ Free(s)
    /\ ~name_taken(products, name) => uuid < MaxProductIds
    /\ LET r == [IdleReq EXCEPT !.op = "create_product", !.name = name,
                                !.description = description,
                                !.audit0 = Len(audit), !.alerts0 = DOMAIN alerts]
       IN  req' = [req EXCEPT ![s] =
                IF name_taken(products, name)
                THEN [r EXCEPT !.pc = "done", !.status_code = 409]
                ELSE [r EXCEPT !.pc = "product_insert"]]
    /\ UNCHANGED <<products, resources, incidents, alerts, audit, uuid, now>>

\* create_product: db.add(product); db.commit(); db.refresh(product).  The
\* unique constraint on products.name rejects the INSERT of a name that has
\* been committed since the existence query (IntegrityError, answered 500).
create_product_insert(s) ==
    /\ req[s].pc = "product_insert"
    /\ IF name_taken(products, req[s].name)
       THEN /\ req' = [req EXCEPT ![s].pc = "done", ![s].status_code = 500,
                                  ![s].error = "SQLAlchemyError"]
            /\ UNCHANGED <<products, uuid>>
       ELSE LET product == [id |-> uuid + 1, name |-> req[s].name,
                            description |-> req[s].description]
            IN  /\ products' = (product.id :> product) @@ products
                /\ uuid' = uuid + 1
                /\ req' = [req EXCEPT ![s].pc = "done", ![s].status_code = 201,
                                      ![s].product = product]
    /\ UNCHANGED <<resources, incidents, alerts, audit, now>>

\* PUT /products/{product_id}: get_product and the name conflict query
update_product(s, product_id, name, description) ==
    /\ Free(s)
    /\ LET product == get_product(products, product_id)
           r == [IdleReq EXCEPT !.op = "update_product", !.product_id = product_id,
                                !.name = name, !.description = description,
                                !.product = product,
                                !.audit0 = Len(audit), !.alerts0 = DOMAIN alerts]
       IN  req' = [req EXCEPT ![s] =
                IF product = NoProduct
                THEN [r EXCEPT !.pc = "done", !.status_code = 404]
                ELSE IF name_given(name) /\ name_taken_by_other(products, name, product_id)
                THEN [r EXCEPT !.pc = "done", !.status_code = 409]
                ELSE [r EXCEPT !.pc = "product_update"]]
    /\ UNCHANGED <<products, resources, incidents, alerts, audit, uuid, now>>

\* update_product: db.commit(); db.refresh(product).  The UPDATE carries the
\* assigned columns; it matches no row when the product has been deleted in
\* the meantime (StaleDataError) and is rejected by the unique constraint
\* when the name has been taken in the meantime (IntegrityError), both 500.
update_product_commit(s) ==
    /\ req[s].pc = "product_update"
    /\ LET row == updated_product(req[s].product, req[s].name, req[s].description)
           changed == row # req[s].product
       IN  IF changed /\ \/ req[s].product_id \notin DOMAIN products
                         \/ /\ row.name # req[s].product.name
                            /\ name_taken_by_other(products, row.name, req[s].product_id)
           THEN /\ req' = [req EXCEPT ![s].pc = "done", ![s].status_code = 500,
                                      ![s].error = "SQLAlchemyError"]
                /\ UNCHANGED products
           ELSE IF req[s].product_id \notin DOMAIN products
           THEN /\ req' = [req EXCEPT ![s].pc = "done", ![s].status_code = 500,
                                      ![s].error = "SQLAlchemyError"]
                /\ UNCHANGED products
           ELSE /\ products' = [products EXCEPT
                        ![req[s].product_id].name =
                            IF name_given(req[s].name) THEN req[s].name ELSE @,
                        ![req[s].product_id].description =
                            IF req[s].description # "None" THEN req[s].description ELSE @]
                /\ req' = [req EXCEPT ![s].pc = "done", ![s].status_code = 200,
                                      ![s].product = products'[req[s].product_id]]
    /\ UNCHANGED <<resources, incidents, alerts, audit, uuid, now>>

\* the rows db.delete(product) takes along: the ORM cascades
\* Product.resources, Resource.alerts, Resource.incidents, Incident.alerts and
\* Incident.audit_logs (all "all, delete-orphan")
Product_resources(db_resources, product_id) ==
    {r \in db_resources : product_id_of(r) = product_id}

Resource_incidents(db_incidents, rs) ==
    {i \in db_incidents : resource_id_of(i) \in rs}

Resource_alerts(db_alerts, rs) ==
    {a \in DOMAIN db_alerts : db_alerts[a].resource_id \in rs}

Incident_alerts(db_alerts, is) ==
    {a \in DOMAIN db_alerts : db_alerts[a].incident_id \in is}

Incident_audit_logs(db_audit, is) ==
    {i \in 1..Len(db_audit) : db_audit[i].incident_id \in is}

\* audit_logs after the deletion of incidents is and alerts as: the cascaded
\* rows are gone, and audit_logs.alert_id (ON DELETE SET NULL) is NULL in the
\* rows that referred to a deleted alert
audit_after_delete(db_audit, is, as) ==
    LET gone == Incident_audit_logs(db_audit, is)
        keep(row) == row.incident_id \notin is
        kept == SelectSeq(db_audit, keep)
    IN  IF gone = {} /\ \A i \in 1..Len(db_audit) : db_audit[i].alert_id \notin as
        THEN db_audit
        ELSE [i \in 1..Len(kept) |->
                IF kept[i].alert_id \in as THEN [kept[i] EXCEPT !.alert_id = NoId]
                ELSE kept[i]]

\* DELETE /products/{product_id}: get_product, db.delete(product), db.commit()
delete_product(s, product_id) ==
    /\ Free(s)
    /\ LET product == get_product(products, product_id)
           r == [IdleReq EXCEPT !.op = "delete_product", !.product_id = product_id,
                                !.product = product,
                                !.audit0 = Len(audit), !.alerts0 = DOMAIN alerts]
           rs == Product_resources(resources, product_id)
           is == Resource_incidents(incidents, rs)
           as == Resource_alerts(alerts, rs) \cup Incident_alerts(alerts, is)
       IN  IF product = NoProduct
           THEN /\ req' = [req EXCEPT ![s] = [r EXCEPT !.pc = "done", !.status_code = 404]]
                /\ UNCHANGED <<products, resources, incidents, alerts, audit>>
           ELSE /\ req' = [req EXCEPT ![s] = [r EXCEPT !.pc = "done", !.status_code = 204]]
                /\ products' = [p \in DOMAIN products \ {product_id} |-> products[p]]
                /\ resources' = resources \ rs
                /\ incidents' = incidents \ is
                /\ alerts' = [a \in DOMAIN alerts \ as |-> alerts[a]]
                /\ audit' = audit_after_delete(audit, is, as)
    /\ UNCHANGED <<uuid, now>>

-----------------------------------------------------------------------------
(* GET /audit-logs/  (audit_log.py)                                        *)

\* query.filter(AuditLog.incident_id == incident_id) when incident_id is given,
\* query.filter(AuditLog.alert_id == alert_id) when alert_id is given
filter_audit_logs(db_audit, incident_id, alert_id) ==
    LET keep(row) ==
            /\ incident_id # NoId => row.incident_id = incident_id
            /\ alert_id # NoId => row.alert_id = alert_id
    IN  SelectSeq(db_audit, keep)

\* variant: the rows in insertion order
order_by_insertion(rows) == rows

\* order_by(AuditLog.event_time.desc())
RECURSIVE order_by_event_time_desc(_)
order_by_event_time_desc(rows) ==
    IF rows = <<>> THEN <<>>
    ELSE LET m == CHOOSE i \in 1..Len(rows) :
                    \A j \in 1..Len(rows) : rows[j].event_time <= rows[i].event_time
             rest == [k \in 1..(Len(rows) - 1) |-> IF k < m THEN rows[k] ELSE rows[k + 1]]
         IN  <<rows[m]>> \o order_by_event_time_desc(rest)

\* .offset(skip).limit(limit)
offset_limit(rows, skip, limit) ==
    SubSeq(rows, skip + 1, IF skip + limit < Len(rows) THEN skip + limit ELSE Len(rows))

get_audit_logs(db_audit, incident_id, alert_id, skip, limit) ==
    offset_limit(order_by_event_time_desc(filter_audit_logs(db_audit, incident_id, alert_id)),
                 skip, limit)

\* list_audit_logs: skip >= 0, 1 <= limit <= 1000
list_audit_logs(s, incident_id, alert_id, skip, limit) ==
    /\ Free(s)
    /\ req' = [req EXCEPT ![s] =
            [IdleReq EXCEPT !.op = "list_audit_logs", !.pc = "done",
                            !.incident_id = incident_id, !.alert_id = alert_id,
                            !.skip = skip, !.limit = limit,
                            !.rows = get_audit_logs(audit, incident_id, alert_id, skip, limit),
                            !.status_code = 200,
                            !.audit0 = Len(audit), !.alerts0 = DOMAIN alerts]]
    /\ StoreUnchanged
    /\ UNCHANGED now

-----------------------------------------------------------------------------
(* Threshold evaluation (monitoring.py)                                    *)

\* variant: `if threshold and value is not None and value > threshold`
evaluate_metrics_truthy(metrics, thresholds) ==
    LET breach(item) ==
            /\ thresholds[item.metric] # NoThreshold
            /\ thresholds[item.metric] # 0
            /\ item.value # NoValue
            /\ item.value > thresholds[item.metric]
        hits == SelectSeq(metrics, breach)
    IN  [i \in 1..Len(hits) |->
            [metric |-> hits[i].metric, value |-> hits[i].value,
             threshold |-> thresholds[hits[i].metric]]]

\* for metric, value in metrics.items(): a breach record is appended when
\* threshold is not None and value is not None and value > threshold
evaluate_metrics(metrics, thresholds) ==
    LET breach(item) ==
            /\ thresholds[item.metric] # NoThreshold
            /\ item.value # NoValue
            /\ item.value > thresholds[item.metric]
        hits == SelectSeq(metrics, breach)
    IN  [i \in 1..Len(hits) |->
            [metric |-> hits[i].metric, value |-> hits[i].value,
             threshold |-> thresholds[hits[i].metric]]]

\* a call of evaluate_metrics on behalf of a metrics request; the response
\* carries the breaches
evaluate_metrics_call(s, metrics, thresholds) ==
    /\ Free(s)
    /\ req' = [req EXCEPT ![s] =
            [IdleReq EXCEPT !.op = "evaluate_metrics", !.pc = "done",
                            !.metrics = metrics, !.thresholds = thresholds,
                            !.breaches = evaluate_metrics(metrics, thresholds),
                            !.status_code = 200,
                            !.audit0 = Len(audit), !.alerts0 = DOMAIN alerts]]
    /\ StoreUnchanged
    /\ UNCHANGED now

-----------------------------------------------------------------------------
(* Channels that do not answer (alerting.py)                               *)

\* send_email_alert: the SMTP server accepts the connection and then sends
\* nothing.  smtplib.SMTP(EMAIL_HOST, EMAIL_PORT) is given no timeout, so the
\* socket blocks without limit and no exception is ever raised.
send_email_alert_hang(s) ==
    /\ req[s].pc = "email"
    /\ req' = [req EXCEPT ![s].pc = "email_blocked"]
    /\ StoreUnchanged
    /\ UNCHANGED now

\* send_slack_alert: the webhook host does not answer requests.post
send_slack_alert_hang(s) ==
    /\ req[s].pc = "slack"
    /\ req' = [req EXCEPT ![s].pc = "slack_blocked"]
    /\ StoreUnchanged
    /\ UNCHANGED now

\* send_slack_alert: timeout=5 expires, requests raises Timeout, which the
\* except clause turns into False
send_slack_alert_timeout(s) ==
    /\ req[s].pc = "slack_blocked"
    /\ req' = [req EXCEPT ![s].pc = "deliver_log",
                          ![s].calls = Append(@, [channel |-> "slack", outcome |-> "exception"]),
                          ![s].slack_sent = send_slack_alert("exception")]
    /\ StoreUnchanged
    /\ UNCHANGED now

-----------------------------------------------------------------------------
(* Pagination parameters of the list endpoints                             *)

\* the endpoint declares limit as Query(100, ge=1, le=1000); the endpoints of
\* crud.py declare it as a plain `limit: int = 100`
limit_is_validated(endpoint) ==
    endpoint \in {"alerting.list_alerts", "audit_log.list_audit_logs",
                  "monitoring.get_all_resources_metrics"}

\* GET on a list endpoint: the default when limit is not given, the 422 of
\* the parameter validation, else the query runs with .limit(limit)
list_endpoint(s, endpoint, limit_given, limit) ==
    /\ Free(s)
    /\ LET effective == IF limit_given THEN limit ELSE DefaultLimit
           r == [IdleReq EXCEPT !.op = "list", !.pc = "done", !.endpoint = endpoint,
                                !.limit_given = limit_given, !.limit = effective,
                                !.audit0 = Len(audit), !.alerts0 = DOMAIN alerts]
       IN  req' = [req EXCEPT ![s] =
                IF limit_is_validated(endpoint) /\ (effective < 1 \/ effective > LimitCap)
                THEN [r EXCEPT !.status_code = 422]
                ELSE [r EXCEPT !.status_code = 200]]
    /\ StoreUnchanged
    /\ UNCHANGED now

-----------------------------------------------------------------------------
(* Metric collection (monitoring.py)                                       *)

\* monitoring.py names `datetime` in the arguments of get_metric_statistics;
\* the module's imports (typing, uuid, fastapi, sqlalchemy, models, crud,
\* boto3, botocore) do not bind that name
datetime_is_bound == FALSE

\* results[metric] = value on a dict kept as the sequence of its items
RECURSIVE dict_set(_, _, _)
dict_set(items, metric, value) ==
    IF items = <<>> THEN <<[metric |-> metric, value |-> value]>>
    ELSE IF Head(items).metric = metric
    THEN <<[metric |-> metric, value |-> value]>> \o Tail(items)
    ELSE <<Head(items)>> \o dict_set(Tail(items), metric, value)

\* the loop of fetch_aws_metrics from position i on: evaluating the call's
\* arguments raises NameError, which `except (BotoCoreError, ClientError)`
\* does not catch; a caught error and an answer without datapoints give None
RECURSIVE fetch_loop(_, _, _, _)
fetch_loop(metrics, answers, i, results) ==
    IF i > Len(metrics) THEN [error |-> "", results |-> results]
    ELSE IF ~datetime_is_bound THEN [error |-> "NameError", results |-> <<>>]
    ELSE LET answer == answers[metrics[i]]
             value == IF answer = FetchError THEN NoValue ELSE answer
         IN  fetch_loop(metrics, answers, i + 1, dict_set(results, metrics[i], value))

\* fetch_aws_metrics; get_cloudwatch_client re-raises what boto3.client raised
fetch_aws_metrics(metrics, answers, client) ==
    IF ~client THEN [error |-> "Exception", results |-> <<>>]
    ELSE fetch_loop(metrics, answers, 1, <<>>)

\* a call of fetch_aws_metrics on behalf of a request; an exception that
\* leaves it is answered 500 by main.py
fetch_aws_metrics_call(s, metrics, answers, client) ==
    /\ Free(s)
    /\ LET result == fetch_aws_metrics(metrics, answers, client)
       IN  req' = [req EXCEPT ![s] =
                [IdleReq EXCEPT !.op = "fetch_aws_metrics", !.pc = "done",
                                !.requested = metrics, !.answers = answers,
                                !.client = client, !.fetch_called = TRUE,
                                !.metrics = result.results, !.error = result.error,
                                !.status_code = IF result.error = "" THEN 200 ELSE 500,
                                !.audit0 = Len(audit), !.alerts0 = DOMAIN alerts]]
    /\ StoreUnchanged
    /\ UNCHANGED now

\* the metric names collection asks for (the first and third of the six)
SUPPORTED_METRICS == <<"CPUUtilization", "NetworkIn">>

DEFAULT_THRESHOLDS == ("CPUUtilization" :> 80) @@ ("NetworkIn" :> 1000000000)

\* variant: the metric source is asked before the monitoring flag is looked at
collect_and_evaluate_metrics_for_resource_eager(row, answers, client) ==
    LET fetched == fetch_aws_metrics(SUPPORTED_METRICS, answers, client)
    IN  IF fetched.error # ""
        THEN [error |-> fetched.error, metrics |-> <<>>, breaches |-> <<>>,
              fetch_called |-> TRUE]
        ELSE [error |-> "", metrics |-> fetched.results,
              breaches |-> evaluate_metrics(fetched.results, DEFAULT_THRESHOLDS),
              fetch_called |-> TRUE]

\* collect_and_evaluate_metrics_for_resource: empty for a resource whose
\* monitoring is disabled; fetch_aws_metrics for aws / ec2, {} for any other
\* provider or type; then evaluate_metrics against DEFAULT_THRESHOLDS
collect_and_evaluate_metrics_for_resource(row, answers, client) ==
    IF ~row.monitoring_enabled
    THEN [error |-> "", metrics |-> <<>>, breaches |-> <<>>, fetch_called |-> FALSE]
    ELSE LET fetched == IF row.aws_ec2
                        THEN fetch_aws_metrics(SUPPORTED_METRICS, answers, client)
                        ELSE [error |-> "", results |-> <<>>]
         IN  IF fetched.error # ""
             THEN [error |-> fetched.error, metrics |-> <<>>, breaches |-> <<>>,
                   fetch_called |-> TRUE]
             ELSE [error |-> "", metrics |-> fetched.results,
                   breaches |-> evaluate_metrics(fetched.results, DEFAULT_THRESHOLDS),
                   fetch_called |-> row.aws_ec2]

\* GET /monitoring/resources/{resource_id}/metrics
get_resource_metrics(s, resource_id, row, answers, client) ==
    /\ Free(s)
    /\ LET resource == get_resource(resources, resource_id)
           result == collect_and_evaluate_metrics_for_resource(row, answers, client)
           r == [IdleReq EXCEPT !.op = "get_resource_metrics", !.pc = "done",
                                !.resource_id = resource_id, !.answers = answers,
                                !.client = client, !.resource_row = row,
                                !.audit0 = Len(audit), !.alerts0 = DOMAIN alerts]
       IN  req' = [req EXCEPT ![s] =
                IF resource = NoId THEN [r EXCEPT !.status_code = 404]
                ELSE IF result.error # ""
                THEN [r EXCEPT !.status_code = 500, !.error = result.error,
                               !.fetch_called = result.fetch_called]
                ELSE [r EXCEPT !.status_code = 200,
                               !.fetch_called = result.fetch_called,
                               !.rows = <<[resource_id |-> resource,
                                           metrics |-> result.metrics,
                                           breaches |-> result.breaches]>>]]
    /\ StoreUnchanged
    /\ UNCHANGED now

\* get_resources: the ids of table resources, newest first, offset and limit
\* applied (ids grow with created_at)
RECURSIVE newest_first(_)
newest_first(ids) ==
    IF ids = {} THEN <<>>
    ELSE LET top == CHOOSE i \in ids : \A j \in ids : j <= i
         IN  <<top>> \o newest_first(ids \ {top})

get_resources(db_resources, skip, limit) ==
    offset_limit(newest_first(db_resources), skip, limit)

\* GET /monitoring/resources/metrics: one result per listed resource; the
\* exception of one collection ends the request
get_all_resources_metrics(s, skip, limit, row, answers, client) ==
    /\ Free(s)
    /\ LET listed == get_resources(resources, skip, limit)
           result == collect_and_evaluate_metrics_for_resource(row, answers, client)
           r == [IdleReq EXCEPT !.op = "get_all_resources_metrics", !.pc = "done",
                                !.skip = skip, !.limit = limit, !.answers = answers,
                                !.client = client, !.resource_row = row,
                                !.audit0 = Len(audit), !.alerts0 = DOMAIN alerts]
       IN  req' = [req EXCEPT ![s] =
                IF listed = <<>> THEN [r EXCEPT !.status_code = 200]
                ELSE IF result.error # ""
                THEN [r EXCEPT !.status_code = 500, !.error = result.error,
                               !.fetch_called = result.fetch_called]
                ELSE [r EXCEPT !.status_code = 200,
                               !.fetch_called = result.fetch_called,
                               !.rows = [k \in 1..Len(listed) |->
                                          [resource_id |-> listed[k],
                                           metrics |-> result.metrics,
                                           breaches |-> result.breaches]]]]
    /\ StoreUnchanged
    /\ UNCHANGED now

-----------------------------------------------------------------------------
(* Persistence failures.  db.commit() raises SQLAlchemyError; no handler   *)
(* catches it, the session is closed without the pending change, and       *)
(* main.py answers 500.  The time the failed call read is stored nowhere,  *)
(* so the clock is left where it was.                                      *)

\* variant: the exception is caught and the request answered as a success
sqlalchemy_exception_swallowed(s) ==
    req' = [req EXCEPT ![s].pc = "done", ![s].status_code = 200]

\* sqlalchemy_exception_handler
sqlalchemy_exception_handler(s) ==
    req' = [req EXCEPT ![s].pc = "done", ![s].status_code = 500,
                       ![s].error = "SQLAlchemyError"]

\* deliver_alert: the commit in log_alert_event(alert_generated) fails
deliver_alert_log_fail(s) ==
    /\ req[s].pc = "deliver_log"
    /\ sqlalchemy_exception_handler(s)
    /\ UNCHANGED now
    /\ StoreUnchanged

\* resolve_alert: the commit of status and resolved_at fails
resolve_alert_fail(s) ==
    /\ req[s].pc = "resolve"
    /\ ~already_resolved(req[s].alert)
    /\ sqlalchemy_exception_handler(s)
    /\ UNCHANGED now
    /\ StoreUnchanged

\* resolve_alert: the commit in log_alert_event(alert_resolved) fails, after
\* the commit of status and resolved_at went through
resolve_alert_log_fail(s) ==
    /\ req[s].pc = "resolve_log"
    /\ sqlalchemy_exception_handler(s)
    /\ UNCHANGED now
    /\ StoreUnchanged

\* detect_security_event: the commit of the new Alert fails
detect_security_event_insert_fail(s) ==
    /\ req[s].pc = "insert"
    /\ sqlalchemy_exception_handler(s)
    /\ UNCHANGED now
    /\ StoreUnchanged

\* detect_security_event: the commit in
\* log_alert_event(security_event_detected) fails, after the commits of the
\* Alert and of the alert_generated entry went through
detect_security_event_log_fail(s) ==
    /\ req[s].pc = "event_log"
    /\ sqlalchemy_exception_handler(s)
    /\ UNCHANGED now
    /\ StoreUnchanged

-----------------------------------------------------------------------------
(* The specifications *)

\* ids a request may name
RequestAlertIds == DOMAIN alerts \cup {UnknownId}
RequestResourceIds == resources \cup {UnknownId}

\* one step of a deliver or resolve request served in session s
ServeAlert(s) ==
    \/ \E a \in RequestAlertIds : deliver_alert_endpoint(s, a)
    \/ \E o \in EmailOutcomes : deliver_alert_email(s, o)
    \/ \E o \in SlackOutcomes : deliver_alert_slack(s, o)
    \/ deliver_alert_log(s)
    \/ deliver_alert_respond(s)
    \/ \E a \in RequestAlertIds, actor \in ResolveActors : resolve_alert_endpoint(s, a, actor)
    \/ resolve_alert(s)
    \/ resolve_alert_refresh(s)
    \/ resolve_alert_log(s)
    \/ resolve_alert_respond(s)

\* one step of a detect request served in session s
ServeDetect(s) ==
    \/ \E r \in RequestResourceIds, e \in EventTags, actor \in Actors, d \in Payloads :
          detect_security_event(s, r, e, actor, d)
    \/ detect_security_event_insert(s)
    \/ detect_security_event_log(s)
    \/ detect_security_event_respond(s)

\* requests are served one at a time, each in a session of its own that is
\* closed before the next request arrives
Next == ServeAlert(1) \/ ServeDetect(1) \/ get_db_close(1)

Spec == Init /\ [][Next]_vars

\* two requests, each a deliver or a resolve, are served at the same time in
\* two sessions, on a store that holds both alerts
InitConc ==
    /\ products = SeedProducts
    /\ resources = SeedResources
    /\ incidents = SeedIncidents
    /\ alerts = SeedAlertsConc
    /\ audit = <<>>
    /\ uuid = 2
    /\ now = 2
    /\ req = [s \in Sessions |-> IdleReq]

NextConc == \E s \in Sessions : ServeAlert(s)

SpecConc == InitConc /\ [][NextConc]_vars

\* ids a product request may name
RequestProductIds == DOMAIN products \cup {UnknownId}

\* one step of a product request served in session s
ServeProduct(s) ==
    \/ \E n \in ProductNames, d \in ProductDescriptions : create_product(s, n, d)
    \/ create_product_insert(s)
    \/ \E p \in RequestProductIds, n \in ProductNames \cup {"None"},
          d \in ProductDescriptions : update_product(s, p, n, d)
    \/ update_product_commit(s)
    \/ \E p \in RequestProductIds : delete_product(s, p)

\* product requests, served one at a time
NextCrud == ServeProduct(1) \/ get_db_close(1)

SpecCrud == Init /\ [][NextCrud]_vars

\* deliver and resolve requests and the deletion of a product, one at a time
NextDelete ==
    \/ ServeAlert(1)
    \/ \E p \in RequestProductIds : delete_product(1, p)
    \/ get_db_close(1)

SpecDelete == Init /\ [][NextDelete]_vars

\* one commit of a deliver or resolve request served in session s fails
FailAlert(s) ==
    \/ deliver_alert_log_fail(s)
    \/ resolve_alert_fail(s)
    \/ resolve_alert_log_fail(s)

\* deliver and resolve requests, one at a time, on a database whose commits
\* may fail
NextFail == ServeAlert(1) \/ FailAlert(1) \/ get_db_close(1)

SpecFail == Init /\ [][NextFail]_vars

\* filters and windows of a list request
ListIncidentIds == incidents \cup {NoId}
ListAlertIds == DOMAIN alerts \cup {NoId}

\* deliver and resolve requests on a store that holds both alerts, and
\* listings of the audit log, one at a time
NextList ==
    \/ ServeAlert(1)
    \/ \E i \in ListIncidentIds, a \in ListAlertIds, skip \in 0..MaxSkip, limit \in 1..MaxLimit :
          list_audit_logs(1, i, a, skip, limit)
    \/ get_db_close(1)

SpecList == InitConc /\ [][NextList]_vars

\* evaluations of metric mappings against threshold mappings, one at a time
NextMonitor ==
    \/ \E M \in MetricMappings, T \in [Metrics -> Thresholds] :
          evaluate_metrics_call(1, M, T)
    \/ get_db_close(1)

SpecMonitor == Init /\ [][NextMonitor]_vars

\* one step of a deliver request served in session s
ServeDeliver(s) ==
    \/ \E a \in RequestAlertIds : deliver_alert_endpoint(s, a)
    \/ \E o \in EmailOutcomes : deliver_alert_email(s, o)
    \/ \E o \in SlackOutcomes : deliver_alert_slack(s, o)
    \/ send_slack_alert_timeout(s)
    \/ deliver_alert_log(s)
    \/ deliver_alert_respond(s)

\* a channel stops answering the call made in session s
ChannelHangs(s) ==
    \/ send_email_alert_hang(s)
    \/ send_slack_alert_hang(s)

\* deliver requests, one at a time, with channels that may stop answering.
\* The worker thread keeps running the handler: a step of the request that
\* stays possible is taken.
NextLive == ServeDeliver(1) \/ ChannelHangs(1) \/ get_db_close(1)

SpecLive == Init /\ [][NextLive]_vars /\ WF_vars(ServeDeliver(1))

\* requests to the list endpoints, one at a time
NextPage ==
    \/ \E e \in ListEndpoints, l \in LimitInputs : list_endpoint(1, e, TRUE, l)
    \/ \E e \in ListEndpoints : list_endpoint(1, e, FALSE, 0)
    \/ get_db_close(1)

SpecPage == Init /\ [][NextPage]_vars

\* calls of fetch_aws_metrics, one at a time
NextFetch ==
    \/ \E l \in MetricLists, a \in CloudWatchAnswers, c \in BOOLEAN :
          fetch_aws_metrics_call(1, l, a, c)
    \/ get_db_close(1)

SpecFetch == Init /\ [][NextFetch]_vars

\* requests to the two monitoring endpoints, one at a time
NextCollect ==
    \/ \E r \in RequestResourceIds, row \in ResourceRows, a \in CloudWatchAnswers,
          c \in BOOLEAN : get_resource_metrics(1, r, row, a, c)
    \/ \E skip \in 0..MaxSkip, limit \in 1..MaxLimit, row \in ResourceRows,
          a \in CloudWatchAnswers, c \in BOOLEAN :
          get_all_resources_metrics(1, skip, limit, row, a, c)
    \/ get_db_close(1)

SpecCollect == Init /\ [][NextCollect]_vars

\* every kind of request the API serves except the deletion of a product,
\* one at a time: deliver, resolve and detect requests, and with fixed
\* parameters the creation and the renaming of a product, the listings and
\* the metric collections
NextAll ==
    \/ ServeAlert(1)
    \/ \E r \in RequestResourceIds :
          detect_security_event(1, r, "policy_violation", "None", "None")
    \/ detect_security_event_insert(1)
    \/ detect_security_event_log(1)
    \/ detect_security_event_respond(1)
    \/ create_product(1, "b", "None")
    \/ create_product_insert(1)
    \/ \E p \in RequestProductIds : update_product(1, p, "b", "None")
    \/ update_product_commit(1)
    \/ list_audit_logs(1, NoId, NoId, 0, MaxLimit)
    \/ \E e \in ListEndpoints : list_endpoint(1, e, FALSE, 0)
    \/ \E row \in ResourceRows :
          get_resource_metrics(1, 1, row, [m \in Metrics |-> 2], TRUE)
    \/ \E row \in ResourceRows :
          get_all_resources_metrics(1, 0, 1, row, [m \in Metrics |-> 2], TRUE)
    \/ get_db_close(1)

SpecAll == Init /\ [][NextAll]_vars

\* two create_product requests are served at the same time in two sessions
NextCreateConc ==
    \E s \in Sessions :
        \/ \E n \in ProductNames, d \in ProductDescriptions : create_product(s, n, d)
        \/ create_product_insert(s)

SpecCreateConc == Init /\ [][NextCreateConc]_vars

\* one commit of a detect request served in session s fails
FailDetect(s) ==
    \/ detect_security_event_insert_fail(s)
    \/ deliver_alert_log_fail(s)
    \/ detect_security_event_log_fail(s)

\* detect requests, one at a time, on a database whose commits may fail
NextDetectFail ==
    \/ ServeDetect(1)
    \/ \E o \in EmailOutcomes : deliver_alert_email(1, o)
    \/ \E o \in SlackOutcomes : deliver_alert_slack(1, o)
    \/ deliver_alert_log(1)
    \/ FailDetect(1)
    \/ get_db_close(1)

SpecDetectFail == Init /\ [][NextDetectFail]_vars

-----------------------------------------------------------------------------
(* Properties *)

\* positions of the audit entries of one type written for one alert
Entries(event_type, alert_id) ==
    {i \in 1..Len(audit) :
        audit[i].event_type = event_type /\ audit[i].alert_id = alert_id}

\* session s is at a point where its call of deliver_alert has returned
DeliverReturned(s) ==
    \/ req[s].pc \in {"deliver_respond", "event_log"}
    \/ req[s].op = "deliver" /\ req[s].pc = "done" /\ req[s].status_code # 404

\* C1: once a call of deliver_alert on an existing alert has returned, the
\* audit log is one entry longer than when the request arrived (after the
\* alert's insertion, for detect), and that entry is an alert_generated entry
\* for the alert whose details hold exactly email_sent and slack_sent, equal to
\* what the two channel calls returned, whatever they returned.
C1_DeliverWritesOneEntry ==
    \A s \in Sessions :
        DeliverReturned(s) =>
            /\ Len(audit) = req[s].audit0 + 1
            /\ audit[Len(audit)].alert_id = req[s].alert_id
            /\ audit[Len(audit)].event_type = "alert_generated"
            /\ audit[Len(audit)].details.keys = {"email_sent", "slack_sent"}
            /\ audit[Len(audit)].details.email_sent = req[s].email_sent
            /\ audit[Len(audit)].details.slack_sent = req[s].slack_sent
            /\ Cardinality({i \in (req[s].audit0 + 1)..Len(audit) :
                    audit[i].event_type = "alert_generated"}) = 1

\* a deliver request has been answered after email succeeded and Slack failed
C1_Witness ==
    \E s \in Sessions :
        /\ req[s].op = "deliver" /\ req[s].pc = "done" /\ req[s].status_code # 404
        /\ req[s].email_sent /\ ~req[s].slack_sent

\* the resolve request of session s arrived after an alert_resolved entry had
\* been written for its alert: it is not the first resolve of that alert
ResolvedBefore(s) ==
    \E i \in 1..req[s].audit0 :
        audit[i].event_type = "alert_resolved" /\ audit[i].alert_id = req[s].alert_id

C3_ConcurrentResolveOnce ==
    \A a \in DOMAIN alerts :
        Cardinality(Entries("alert_resolved", a)) <= 1

\* C4: in every state of the store, an alert has resolved_at set exactly when
\* its status is resolved.
C4_ResolvedAtIffResolved ==
    \A a \in DOMAIN alerts :
        (alerts[a].resolved_at # NoTime) <=> (alerts[a].status = "resolved")

\* an alert created by detect_security_event has been resolved
C4_Witness ==
    \E a \in DOMAIN alerts :
        /\ alerts[a].type = "security"
        /\ alerts[a].status = "resolved"
        /\ alerts[a].resolved_at # NoTime

\* the status changes the lifecycle allows
AllowedTransitions ==
    {<<"active", "acknowledged">>, <<"acknowledged", "resolved">>, <<"active", "resolved">>}

\* C5: with requests served one after the other, every step that changes an
\* alert's status makes one of the allowed changes, and no step changes the
\* status or the resolved_at of an alert that is resolved.
C5_StatusTransitions ==
    [][\A a \in DOMAIN alerts :
          a \in DOMAIN alerts' =>
            /\ alerts'[a].status # alerts[a].status =>
                  <<alerts[a].status, alerts'[a].status>> \in AllowedTransitions
            /\ alerts[a].status = "resolved" =>
                  /\ alerts'[a].status = "resolved"
                  /\ alerts'[a].resolved_at = alerts[a].resolved_at]_vars

\* a resolve request on an alert that was acknowledged, and then a second
\* request on the same, now resolved, alert have both been answered
C5_Witness ==
    \E s \in Sessions :
        /\ req[s].op \in {"deliver", "resolve"} /\ req[s].pc = "done"
        /\ req[s].status_code # 404
        /\ ResolvedBefore(s)
        /\ alerts[req[s].alert_id].type = "misconfiguration"

\* C6: deliver_alert returns email_sent or slack_sent, and the deliver endpoint
\* answers 500 exactly when neither channel returned true and 200 otherwise.
C6_DeliverResultIsOr ==
    \A s \in Sessions :
        /\ DeliverReturned(s) =>
              (req[s].success <=> (req[s].email_sent \/ req[s].slack_sent))
        /\ (req[s].op = "deliver" /\ req[s].pc = "done" /\ req[s].status_code # 404) =>
              /\ req[s].status_code \in {200, 500}
              /\ req[s].status_code = 500 <=> (~req[s].email_sent /\ ~req[s].slack_sent)

\* a deliver request was answered 200 although email failed
C6_Witness ==
    \E s \in Sessions :
        /\ req[s].op = "deliver" /\ req[s].pc = "done" /\ req[s].status_code = 200
        /\ ~req[s].email_sent /\ req[s].slack_sent

\* C7: whenever the deliver endpoint has answered 500, an alert_generated entry
\* for the alert, written after the request arrived and recording both channels
\* as failed, is in the audit log.
C7_AuditBeforeFailure ==
    \A s \in Sessions :
        (req[s].op = "deliver" /\ req[s].status_code = 500) =>
            \E i \in (req[s].audit0 + 1)..Len(audit) :
                /\ audit[i].event_type = "alert_generated"
                /\ audit[i].alert_id = req[s].alert_id
                /\ ~audit[i].details.email_sent
                /\ ~audit[i].details.slack_sent

\* the deliver endpoint has answered 500
C7_Witness ==
    \E s \in Sessions :
        req[s].op = "deliver" /\ req[s].pc = "done" /\ req[s].status_code = 500

\* C8: a step that leaves a detect request with an unrecognized tag in session
\* s is the arrival of that request answered at once with 400: it changes no
\* alert and no audit entry, generates no id, and no channel call lies between
\* arrival and answer; this whether or not the resource exists.
C8_InvalidEventType ==
    [][\A s \in Sessions :
          (req'[s] # req[s] /\ req'[s].op = "detect"
             /\ req'[s].event_type \notin SECURITY_EVENT_TYPES) =>
            /\ req[s].pc = "idle"
            /\ req'[s].pc = "done"
            /\ req'[s].status_code = 400
            /\ req'[s].alert_id = NoId
            /\ alerts' = alerts
            /\ audit' = audit
            /\ uuid' = uuid]_vars

\* an unrecognized tag was sent for a resource that exists and answered 400
C8_Witness ==
    \E s \in Sessions :
        /\ req[s].op = "detect" /\ req[s].pc = "done" /\ req[s].status_code = 400
        /\ req[s].event_type \notin SECURITY_EVENT_TYPES
        /\ req[s].resource_id \in resources

C10_SecuritySeverity ==
    \A s \in Sessions :
        (req[s].op = "detect" /\ req[s].alert_id # NoId) =>
            /\ req[s].event_type \in SECURITY_EVENT_TYPES
            /\ alerts[req[s].alert_id].type = "security"
            /\ alerts[req[s].alert_id].status = "active"
            /\ req[s].event_type \in {"unauthorized_access", "privilege_escalation",
                                      "resource_exposure"}
                  => alerts[req[s].alert_id].severity = "critical"
            /\ req[s].event_type \in {"configuration_change", "policy_violation"}
                  => alerts[req[s].alert_id].severity = "warning"

\* a resource_exposure event has been turned into an alert and answered
C10_Witness ==
    \E s \in Sessions :
        /\ req[s].op = "detect" /\ req[s].pc = "done" /\ req[s].status_code = 201
        /\ req[s].event_type = "resource_exposure"

\* C11: under deliver, resolve and detect_security_event requests the audit
\* log only grows at its end: every step leaves each entry already written in
\* place with the same alert_id, incident_id, event_type, event_time, actor and
\* details.
C11_AuditAppendOnly ==
    [][/\ Len(audit') >= Len(audit)
       /\ \A i \in 1..Len(audit) : audit'[i] = audit[i]]_vars

\* an alert has been delivered twice, so a second alert_generated entry for it
\* was written while the first was in the log
C11_Witness ==
    \E i, j \in 1..Len(audit) :
        /\ i < j
        /\ audit[i].alert_id = audit[j].alert_id
        /\ audit[i].event_type = "alert_generated"
        /\ audit[j].event_type = "alert_generated"

\* C12: no step of the program deletes an alert or an audit entry, the
\* deletion of a product included: every alert that exists still exists after
\* the step, and every audit entry is still there with the alert and incident
\* references it was written with.
C12_NeverDeleted ==
    [][/\ DOMAIN alerts \subseteq DOMAIN alerts'
       /\ Len(audit') >= Len(audit)
       /\ \A i \in 1..Len(audit) :
            /\ audit'[i].alert_id = audit[i].alert_id
            /\ audit'[i].incident_id = audit[i].incident_id]_vars

\* C13: a resolve request that ended in a persistence failure has left the
\* alert with the status it had, resolved_at unset and the audit log as long
\* as it was; and whenever no request is in flight, every resolved alert has
\* exactly one alert_resolved entry, also after failed resolves were retried.
C13_FailedResolveNotHappened ==
    /\ \A s \in Sessions :
        (req[s].pc = "done" /\ req[s].op = "resolve" /\ req[s].error # "") =>
            /\ alerts[req[s].alert_id].status # "resolved"
            /\ alerts[req[s].alert_id].resolved_at = NoTime
            /\ Len(audit) = req[s].audit0
    /\ (\A s \in Sessions : req[s].pc \in {"idle", "done"}) =>
            \A a \in DOMAIN alerts :
                alerts[a].status = "resolved" =>
                    Cardinality(Entries("alert_resolved", a)) = 1

\* session s is at a point where its call of deliver_alert has returned a
\* delivery result to the endpoint
DeliverResult(s) ==
    \/ req[s].pc = "deliver_respond"
    \/ /\ req[s].op = "deliver" /\ req[s].pc = "done"
       /\ req[s].status_code # 404 /\ req[s].error = ""

\* C14: with commits that may fail, whenever deliver_alert has returned a
\* delivery result the alert_generated entry of that call is in the audit
\* log; a deliver request that wrote none ended in the database error.
C14_AuditFailureSurfaced ==
    \A s \in Sessions :
        /\ DeliverResult(s) =>
            /\ Len(audit) = req[s].audit0 + 1
            /\ audit[Len(audit)].event_type = "alert_generated"
            /\ audit[Len(audit)].alert_id = req[s].alert_id
        /\ (req[s].op = "deliver" /\ req[s].pc = "done" /\ req[s].status_code # 404
              /\ Len(audit) = req[s].audit0) =>
            /\ req[s].status_code = 500
            /\ req[s].error = "SQLAlchemyError"

\* the audit write of a deliver failed after a channel had delivered the alert
C14_Witness ==
    \E s \in Sessions :
        /\ req[s].op = "deliver" /\ req[s].pc = "done"
        /\ req[s].error = "SQLAlchemyError"
        /\ req[s].email_sent
        /\ Len(audit) = req[s].audit0

\* the request of session s names an alert (deliver, resolve) or a resource
\* (detect) that did not exist when it arrived
UnknownAlert(r) == r.op \in {"deliver", "resolve"} /\ r.alert_id \notin r.alerts0
UnknownResource(r) == r.op = "detect" /\ r.resource_id \notin resources

\* C15 as stated: every step of a deliver or resolve request for an unknown
\* alert id, and of a detect request for an unknown resource id, is the one
\* that answers NotFound (404), and it leaves alerts and the audit log as they
\* were; in particular no channel step is taken.
C15_UnknownIdNotFound ==
    [][\A s \in Sessions :
        (req'[s] # req[s] /\ (UnknownAlert(req'[s]) \/ UnknownResource(req'[s]))) =>
            /\ req'[s].pc = "done"
            /\ req'[s].status_code = 404
            /\ alerts' = alerts
            /\ audit' = audit]_vars

\* C15, amended: the same, for a detect request only when its event tag is a
\* recognized one; a detect request with an unrecognized tag for an unknown
\* resource is answered InvalidEventType (400), and changes nothing either.
C15_UnknownIdNotFoundValidTag ==
    [][\A s \in Sessions :
        (req'[s] # req[s] /\ (UnknownAlert(req'[s]) \/ UnknownResource(req'[s]))) =>
            /\ req'[s].pc = "done"
            /\ req'[s].status_code =
                 IF req'[s].op = "detect" /\ ~is_supported(req'[s].event_type)
                 THEN 400 ELSE 404
            /\ alerts' = alerts
            /\ audit' = audit]_vars

\* a detect request with a recognized tag for an unknown resource was answered
\* 404 while the audit log held entries
C15_Witness ==
    \E s \in Sessions :
        /\ req[s].op = "detect" /\ req[s].pc = "done"
        /\ req[s].resource_id = UnknownId
        /\ req[s].event_type \in SECURITY_EVENT_TYPES
        /\ req[s].status_code = 404
        /\ Len(audit) > 0

\* session s is past the two channel calls of a call of deliver_alert
ChannelsDone(s) ==
    \/ req[s].pc \in {"deliver_log", "deliver_respond", "event_log", "detect_respond"}
    \/ /\ req[s].pc = "done" /\ req[s].op \in {"deliver", "detect"}
       /\ req[s].status_code \notin {400, 404}

\* C16: in a call of deliver_alert the email channel is called once, then the
\* Slack channel once, whatever the email transport did; each flag is true
\* exactly when its transport delivered (sent / HTTP 200) and false for every
\* failure; and whatever the transports did, the call goes on to write the
\* alert_generated entry with these flags and ends without an error.
C16_ChannelsIndependent ==
    \A s \in Sessions :
        /\ req[s].pc = "slack" =>
            /\ Len(req[s].calls) = 1
            /\ req[s].calls[1].channel = "email"
        /\ ChannelsDone(s) =>
            /\ Len(req[s].calls) = 2
            /\ req[s].calls[1].channel = "email"
            /\ req[s].calls[2].channel = "slack"
            /\ req[s].email_sent = (req[s].calls[1].outcome = "sent")
            /\ req[s].slack_sent = (req[s].calls[2].outcome = "http_200")
            /\ req[s].error = ""
        /\ (ChannelsDone(s) /\ req[s].pc # "deliver_log") =>
            \E i \in 1..Len(audit) :
                /\ i > req[s].audit0
                /\ audit[i].event_type = "alert_generated"
                /\ audit[i].alert_id = req[s].alert_id
                /\ audit[i].details.email_sent = req[s].email_sent
                /\ audit[i].details.slack_sent = req[s].slack_sent

\* the email transport failed, the webhook answered with an error status, and
\* the entry was written with both flags false
C16_Witness ==
    \E s \in Sessions :
        /\ req[s].pc = "done" /\ req[s].op = "deliver"
        /\ Len(req[s].calls) = 2
        /\ req[s].calls[1].outcome = "smtp_error"
        /\ req[s].calls[2].outcome = "http_error"
        /\ Len(audit) = req[s].audit0 + 1
        /\ ~audit[Len(audit)].details.email_sent
        /\ ~audit[Len(audit)].details.slack_sent

\* positions of the audit entries a list request with these filters matches
Matching(incident_id, alert_id) ==
    {i \in 1..Len(audit) :
        /\ incident_id # NoId => audit[i].incident_id = incident_id
        /\ alert_id # NoId => audit[i].alert_id = alert_id}

\* number of matching entries newer than entry i
Rank(i, incident_id, alert_id) ==
    Cardinality({j \in Matching(incident_id, alert_id) :
                    audit[j].event_time > audit[i].event_time})

\* C17: the rows a list request returns all carry the incident_id asked for
\* and, when alert_id is given too, that alert_id as well; they are in
\* descending order of event_time; and they are the window of the matching
\* entries, newest first, that starts after the first skip of them and holds
\* at most limit: row k is the matching entry with skip + k - 1 newer ones.
C17_ListFilteredOrderedWindow ==
    \A s \in Sessions :
        (req[s].op = "list_audit_logs" /\ req[s].pc = "done") =>
            LET rows == req[s].rows
                i0 == req[s].incident_id
                a0 == req[s].alert_id
                window == {i \in Matching(i0, a0) :
                            /\ Rank(i, i0, a0) >= req[s].skip
                            /\ Rank(i, i0, a0) < req[s].skip + req[s].limit}
            IN  /\ \A k \in 1..Len(rows) :
                    /\ i0 # NoId => rows[k].incident_id = i0
                    /\ a0 # NoId => rows[k].alert_id = a0
                /\ \A k, l \in 1..Len(rows) :
                    k < l => rows[k].event_time >= rows[l].event_time
                /\ Len(rows) = Cardinality(window)
                /\ \A k \in 1..Len(rows) :
                    \E i \in window :
                        /\ Rank(i, i0, a0) = req[s].skip + k - 1
                        /\ rows[k] = audit[i]

\* a listing by incident over a log that also holds an entry of the unlinked
\* alert returned the two entries of the incident, the newer one first
C17_Witness ==
    \E s \in Sessions :
        /\ req[s].op = "list_audit_logs" /\ req[s].pc = "done"
        /\ req[s].incident_id # NoId
        /\ Len(req[s].rows) = 2
        /\ req[s].rows[1].event_time > req[s].rows[2].event_time
        /\ Len(audit) > Cardinality(Matching(req[s].incident_id, req[s].alert_id))

\* no two rows of table products hold the same name
UniqueNames ==
    \A p, q \in DOMAIN products : p # q => products[p].name # products[q].name

\* r is a create request whose name a product holds
CreateOfHeldName(r) ==
    /\ r.op = "create_product"
    /\ \E p \in DOMAIN products : products[p].name = r.name

\* r is an update request for an existing product whose name a different
\* product holds
UpdateToHeldName(r) ==
    /\ r.op = "update_product"
    /\ r.product_id \in DOMAIN products
    /\ \E p \in DOMAIN products : p # r.product_id /\ products[p].name = r.name

\* C18 as stated: with product requests served one at a time, a create request
\* whose name a product holds, and an update request whose name a different
\* product holds, are answered Conflict (409) and leave table products as it
\* was; and no two products ever share a name.
C18_ConflictUniqueNames ==
    /\ []UniqueNames
    /\ [][\A s \in Sessions :
            (req[s].pc = "idle" /\ (CreateOfHeldName(req'[s]) \/ UpdateToHeldName(req'[s]))) =>
                /\ req'[s].pc = "done"
                /\ req'[s].status_code = 409
                /\ products' = products]_vars

\* C18, amended: the same, for an update request only when the name it gives
\* is not empty; an update request with an empty name is not a rename, it is
\* answered as a success and leaves the name as it was.
C18_ConflictUniqueNamesNonEmpty ==
    /\ []UniqueNames
    /\ [][\A s \in Sessions :
            /\ (req[s].pc = "idle" /\ (\/ CreateOfHeldName(req'[s])
                                       \/ (UpdateToHeldName(req'[s]) /\ req'[s].name # ""))) =>
                    /\ req'[s].pc = "done"
                    /\ req'[s].status_code = 409
                    /\ products' = products
            /\ (req[s].pc = "product_update" /\ req[s].name = "" /\ req'[s] # req[s]) =>
                    /\ req'[s].status_code = 200
                    /\ products'[req[s].product_id].name = products[req[s].product_id].name]_vars

\* two products exist and an update of one to the name of the other was
\* answered 409
C18_Witness ==
    \E s \in Sessions :
        /\ req[s].op = "update_product" /\ req[s].pc = "done"
        /\ req[s].status_code = 409
        /\ req[s].name # ""
        /\ Cardinality(DOMAIN products) >= 2
        /\ \E p \in DOMAIN products : p # req[s].product_id /\ products[p].name = req[s].name

\* metric m of mapping M breaches threshold mapping T
Breaches(m, M, T) ==
    \E i \in 1..Len(M) :
        /\ M[i].metric = m
        /\ T[m] # NoThreshold
        /\ M[i].value # NoValue
        /\ M[i].value > T[m]

\* position of metric m in the iteration order of M
PositionIn(M, m) == CHOOSE i \in 1..Len(M) : M[i].metric = m

\* C19: the result of evaluate_metrics(M, T) holds exactly one record for each
\* metric that is in M with a value and in T with a threshold and whose value
\* is strictly greater than the threshold (a threshold of 0 included), and no
\* record for any other metric; each record carries the metric's value in M
\* and threshold in T; the records are in the iteration order of M; and M and
\* T are as they were passed.
C19_EvaluateMetrics ==
    \A s \in Sessions :
        (req[s].op = "evaluate_metrics" /\ req[s].pc = "done") =>
            LET M == req[s].metrics
                T == req[s].thresholds
                B == req[s].breaches
            IN  /\ \A m \in Metrics :
                    Cardinality({k \in 1..Len(B) : B[k].metric = m})
                        = IF Breaches(m, M, T) THEN 1 ELSE 0
                /\ \A k \in 1..Len(B) :
                    /\ B[k].value = M[PositionIn(M, B[k].metric)].value
                    /\ B[k].threshold = T[B[k].metric]
                /\ \A k, l \in 1..Len(B) :
                    k < l => PositionIn(M, B[k].metric) < PositionIn(M, B[l].metric)
                /\ M \in MetricMappings
                /\ T \in [Metrics -> Thresholds]

\* NetworkIn comes first in M and breaches a threshold of 0, CPUUtilization
\* equals its threshold: the one record is the one of NetworkIn
C19_Witness ==
    \E s \in Sessions :
        /\ req[s].op = "evaluate_metrics" /\ req[s].pc = "done"
        /\ Len(req[s].metrics) = 2
        /\ req[s].metrics[1] = [metric |-> "NetworkIn", value |-> 1]
        /\ req[s].metrics[2] = [metric |-> "CPUUtilization", value |-> 1]
        /\ req[s].thresholds["NetworkIn"] = 0
        /\ req[s].thresholds["CPUUtilization"] = 1
        /\ req[s].breaches = <<[metric |-> "NetworkIn", value |-> 1, threshold |-> 0]>>

\* session s is inside a call of deliver_alert, or about to answer a deliver
\* request
InDeliver(s) == req[s].pc \in {"email", "slack", "deliver_log", "deliver_respond"}

\* C20: no step of a deliver request, and no step of the call of deliver_alert
\* inside a detect request, changes table alerts: status, severity,
\* resolved_at, type and details of every alert, the delivered one included,
\* are after the step what they were before it, whatever the channels did and
\* whatever the alert's status.
C20_DeliverKeepsAlert ==
    [][\A s \in Sessions :
        (\/ InDeliver(s) /\ req'[s] # req[s]
         \/ req[s].pc = "idle" /\ req'[s].op = "deliver") =>
            alerts' = alerts]_vars

\* a resolved alert was delivered, by no channel, and is as the request found it
C20_Witness ==
    \E s \in Sessions :
        /\ req[s].op = "deliver" /\ req[s].pc = "done"
        /\ req[s].alert.status = "resolved"
        /\ ~req[s].success
        /\ Len(audit) = req[s].audit0 + 1
        /\ alerts[req[s].alert_id] = req[s].alert

\* C21: a deliver request that has reached its first channel call is
\* eventually answered with its alert_generated entry written, also when a
\* channel does not answer.
C21_DeliverCompletes ==
    (req[1].op = "deliver" /\ req[1].pc = "email")
        ~> (req[1].pc = "done" /\ Len(audit) = req[1].audit0 + 1)

\* C22: a request to any list endpoint that gives no limit is run with limit
\* 100; one that gives a limit greater than 1000 is rejected; so no list query
\* runs with a limit above 1000.
C22_LimitDefaultAndCap ==
    \A s \in Sessions :
        (req[s].op = "list" /\ req[s].pc = "done") =>
            /\ ~req[s].limit_given =>
                    (req[s].status_code = 200 /\ req[s].limit = DefaultLimit)
            /\ (req[s].limit_given /\ req[s].limit > LimitCap) =>
                    req[s].status_code = 422
            /\ req[s].status_code = 200 => req[s].limit <= LimitCap

\* C23: a call of fetch_aws_metrics with a CloudWatch client returns, without
\* an error, a mapping whose keys are the requested names; a metric whose
\* fetch raised or that has no datapoint maps to None, every other metric to
\* the Average CloudWatch answered.
C23_FetchToleratesFailure ==
    \A s \in Sessions :
        (req[s].op = "fetch_aws_metrics" /\ req[s].pc = "done" /\ req[s].client) =>
            LET names == {req[s].requested[i] : i \in 1..Len(req[s].requested)}
                M == req[s].metrics
            IN  /\ req[s].error = ""
                /\ {M[k].metric : k \in 1..Len(M)} = names
                /\ Len(M) = Cardinality(names)
                /\ \A k \in 1..Len(M) :
                    M[k].value = IF req[s].answers[M[k].metric] = FetchError
                                 THEN NoValue ELSE req[s].answers[M[k].metric]

MonitoringOps == {"get_resource_metrics", "get_all_resources_metrics"}

\* C28: a step of either monitoring endpoint leaves table alerts and the
\* audit log as they were and makes no channel call; and a request that finds
\* the resource with monitoring disabled, or with a provider / type other than
\* aws / ec2, makes no call of the metric source and succeeds, every result
\* it returns having empty metrics and empty breaches.
C28_CollectionIsSeparate ==
    [][\A s \in Sessions :
        (req'[s] # req[s] /\ req'[s].op \in MonitoringOps) =>
            /\ alerts' = alerts
            /\ audit' = audit
            /\ req'[s].calls = <<>>
            /\ (~req'[s].resource_row.monitoring_enabled \/ ~req'[s].resource_row.aws_ec2) =>
                    /\ ~req'[s].fetch_called
                    /\ req'[s].status_code \in {200, 404}
                    /\ \A k \in 1..Len(req'[s].rows) :
                        /\ req'[s].rows[k].metrics = <<>>
                        /\ req'[s].rows[k].breaches = <<>>]_vars

\* the metrics of a resource whose monitoring is disabled were asked for while
\* CloudWatch would have answered with a value; the one result is empty
C28_Witness ==
    \E s \in Sessions :
        /\ req[s].op = "get_resource_metrics" /\ req[s].pc = "done"
        /\ req[s].status_code = 200
        /\ ~req[s].resource_row.monitoring_enabled
        /\ req[s].resource_row.aws_ec2
        /\ req[s].client
        /\ req[s].answers["CPUUtilization"] = 2
        /\ Len(req[s].rows) = 1
        /\ req[s].rows[1].breaches = <<>>

LifecycleOps == {"deliver", "resolve", "detect"}
AuditEventTypes == {"alert_generated", "alert_resolved", "security_event_detected"}

\* C24: a step that lengthens the audit log is a step of a deliver, resolve or
\* detect request and adds one entry, whose alert_id is the id of a stored
\* alert and whose event_type is alert_generated, alert_resolved or
\* security_event_detected; a step of any other request (a listing, a product
\* creation or update, a metric collection) leaves the audit log as it was.
C24_AuditOnlyByLifecycle ==
    [][/\ \A s \in Sessions :
            (req'[s] # req[s] /\ req'[s].op \notin LifecycleOps) => audit' = audit
       /\ Len(audit') > Len(audit) =>
            /\ Len(audit') = Len(audit) + 1
            /\ audit'[Len(audit')].alert_id # NoId
            /\ audit'[Len(audit')].alert_id \in DOMAIN alerts'
            /\ audit'[Len(audit')].event_type \in AuditEventTypes
            /\ \E s \in Sessions :
                /\ req[s].op \in LifecycleOps
                /\ req'[s] # req[s]
                /\ audit'[Len(audit')].alert_id = req[s].alert_id]_vars

\* the log holds an entry of each of the three types, a second product was
\* created, and a metric collection has just been answered
C24_Witness ==
    /\ \A e \in AuditEventTypes : \E i \in 1..Len(audit) : audit[i].event_type = e
    /\ Cardinality(DOMAIN products) = 2
    /\ req[1].op \in MonitoringOps /\ req[1].pc = "done"

\* the audit entries of alert a, in order
EntriesOf(log, a) ==
    LET of_a(row) == row.alert_id = a
    IN  SelectSeq(log, of_a)

\* the two sessions have answered a deliver or resolve request each, for two
\* different stored alerts
BothDoneOnDifferentAlerts ==
    /\ \A s \in Sessions : req[s].pc = "done" /\ req[s].alert_id \in DOMAIN alerts
    /\ req[1].alert_id # req[2].alert_id

\* the row of alert a and its one audit entry are what the request of session
\* s alone produces from the seeded row, timestamps aside
AsIfAlone(s) ==
    LET a == req[s].alert_id
        seeded == SeedAlertsConc[a]
        e == EntriesOf(audit, a)
    IN  /\ Len(e) = 1
        /\ e[1].incident_id = seeded.incident_id
        /\ IF req[s].op = "deliver"
           THEN /\ alerts[a] = seeded
                /\ e[1].event_type = "alert_generated"
                /\ e[1].actor = "system"
                /\ e[1].details = DeliveryDetails(req[s].email_sent, req[s].slack_sent)
           ELSE /\ [alerts[a] EXCEPT !.resolved_at = NoTime]
                    = [seeded EXCEPT !.status = "resolved"]
                /\ alerts[a].resolved_at # NoTime
                /\ e[1].event_type = "alert_resolved"
                /\ e[1].actor = req[s].actor
                /\ e[1].details = ResolvedDetails(alerts[a].resolved_at)

\* C25: with two sessions interleaving freely, a step of a deliver or resolve
\* request for alert A leaves the row of every other alert B and the audit
\* entries of B as they were; and once two requests for different alerts are
\* both answered, each alert's row and audit entry are what its own request
\* produces when run alone, timestamps aside, and the log holds nothing else.
C25_DifferentAlertsIndependent ==
    /\ [](BothDoneOnDifferentAlerts =>
            /\ Len(audit) = 2
            /\ \A s \in Sessions : AsIfAlone(s))
    /\ [][\A s \in Sessions :
            (req'[s] # req[s] /\ req'[s].op \in {"deliver", "resolve"}) =>
                \A b \in DOMAIN alerts \ {req'[s].alert_id} :
                    /\ b \in DOMAIN alerts'
                    /\ alerts'[b] = alerts[b]
                    /\ EntriesOf(audit', b) = EntriesOf(audit, b)]_vars

\* alert 1 was resolved and alert 2 delivered, and the delivery's entry was
\* written between the commit of the resolution and its audit entry
C25_Witness ==
    /\ BothDoneOnDifferentAlerts
    /\ Len(audit) = 2
    /\ audit[1].alert_id = 2 /\ audit[1].event_type = "alert_generated"
    /\ audit[2].alert_id = 1 /\ audit[2].event_type = "alert_resolved"
    /\ alerts[1].resolved_at < audit[1].event_time

\* C26: once two concurrent create_product requests for the same name, which
\* no product held before, are both answered, exactly one product has that
\* name, one request was answered 201 and the other Conflict (409).
C26_ConcurrentCreateConflict ==
    (/\ \A s \in Sessions : req[s].op = "create_product" /\ req[s].pc = "done"
     /\ req[1].name = req[2].name
     /\ \A p \in DOMAIN SeedProducts : SeedProducts[p].name # req[1].name) =>
        /\ Cardinality({p \in DOMAIN products : products[p].name = req[1].name}) = 1
        /\ \E s, o \in Sessions :
            /\ s # o
            /\ req[s].status_code = 201
            /\ req[o].status_code = 409

\* C27: a detect request that ended in a persistence failure has left no
\* alert and no audit entry behind; and whenever no request is in flight,
\* every stored security alert has an alert_generated and a
\* security_event_detected entry.
C27_FailedDetectNotHappened ==
    /\ \A s \in Sessions :
        (req[s].pc = "done" /\ req[s].op = "detect" /\ req[s].error # "") =>
            /\ DOMAIN alerts = req[s].alerts0
            /\ Len(audit) = req[s].audit0
    /\ (\A s \in Sessions : req[s].pc \in {"idle", "done"}) =>
            \A a \in DOMAIN alerts :
                alerts[a].type = "security" =>
                    /\ Entries("alert_generated", a) # {}
                    /\ Entries("security_event_detected", a) # {}

\* C29: a detect request with a recognized event type for an existing
\* resource is answered 201 with the stored alert it created and without an
\* error, whatever the two channels did; the alert_generated entry of that
\* alert carries the two flags the channels returned, both false when neither
\* delivered, and the security_event_detected entry follows it.
C29_DetectIgnoresDelivery ==
    \A s \in Sessions :
        (/\ req[s].op = "detect" /\ req[s].pc = "done"
         /\ req[s].event_type \in SECURITY_EVENT_TYPES
         /\ req[s].resource_id \in resources) =>
            /\ req[s].status_code = 201
            /\ req[s].error = ""
            /\ req[s].alert_id \in DOMAIN alerts
            /\ req[s].body = alerts[req[s].alert_id]
            /\ Len(req[s].calls) = 2
            /\ \E i \in Entries("alert_generated", req[s].alert_id) :
                /\ audit[i].details.email_sent = (req[s].calls[1].outcome = "sent")
                /\ audit[i].details.slack_sent = (req[s].calls[2].outcome = "http_200")
                /\ \E j \in Entries("security_event_detected", req[s].alert_id) : i < j

\* a detect request was answered 201 although the email transport failed and
\* no webhook is configured
C29_Witness ==
    \E s \in Sessions :
        /\ req[s].op = "detect" /\ req[s].pc = "done"
        /\ req[s].status_code = 201
        /\ Len(req[s].calls) = 2
        /\ req[s].calls[1].outcome = "smtp_error"
        /\ req[s].calls[2].outcome = "unconfigured"
        /\ ~req[s].success

\* positions of the audit entries written for alerts linked to an incident
LinkedEntries(incident_id) ==
    {i \in 1..Len(audit) :
        /\ audit[i].alert_id \in DOMAIN alerts
        /\ alerts[audit[i].alert_id].incident_id = incident_id}

\* C30: every audit entry written by a deliver or resolve request has the
\* incident_id of its alert, null for the unlinked alert; and a listing of the
\* audit log by an incident id, from the start and with a limit that the
\* entries of that incident's alerts do not exceed, returns each of them.
C30_EntriesCarryIncident ==
    /\ \A i \in 1..Len(audit) :
        /\ audit[i].alert_id \in DOMAIN alerts
        /\ audit[i].incident_id = alerts[audit[i].alert_id].incident_id
    /\ \A s \in Sessions :
        (/\ req[s].op = "list_audit_logs" /\ req[s].pc = "done"
         /\ req[s].incident_id # NoId /\ req[s].alert_id = NoId
         /\ req[s].skip = 0
         /\ Cardinality(LinkedEntries(req[s].incident_id)) <= req[s].limit) =>
            \A i \in LinkedEntries(req[s].incident_id) :
                \E k \in 1..Len(req[s].rows) : req[s].rows[k] = audit[i]

\* the linked alert was delivered and resolved, the unlinked one delivered,
\* and the listing by the incident returned the two entries of the linked one
C30_Witness ==
    \E s \in Sessions :
        /\ req[s].op = "list_audit_logs" /\ req[s].pc = "done"
        /\ req[s].incident_id # NoId /\ req[s].alert_id = NoId
        /\ req[s].skip = 0
        /\ Len(audit) = 3
        /\ Len(req[s].rows) = 2
        /\ \E k \in 1..2 : req[s].rows[k].event_type = "alert_resolved"
        /\ \E k \in 1..2 : req[s].rows[k].event_type = "alert_generated"

====
